---- MODULE Spec2Model ----
(***************************************************************************)
(* A model of RuleTree<ResultType> (src/RuleTree.h): a tree of Branch and  *)
(* Leaf nodes, the percentage bookkeeping of a Branch (AllocatePercentage, *)
(* SpreadPercentage, SpreadPercentageOnAllNotSetNodes, ResetAllocations),  *)
(* the rule-checked weighted random descent of Get, GetNodeByName and      *)
(* DumpTree.                                                               *)
(*                                                                         *)
(* Nodes are object identities (naturals).  A Rule is modelled by the set  *)
(* of subjects (ParentOrder values) its function accepts.  size_t values   *)
(* are kept modulo 2^SIZE_BITS.                                            *)
(***************************************************************************)
EXTENDS Integers, Sequences, FiniteSets, TLC

\* ------------------------------------------------------------------ bounds
\* Width of size_t in the model.  The usual build has 64 bits, which the
\* model checker's integers cannot hold; every value the model uses lies
\* within a few hundred of 0 or of 2^SIZE_BITS, so the width only has to
\* leave those two ranges apart.
SIZE_BITS == 16
\* Branch::MAX_TRIES is 100000 in the source (line 224); the model runs the
\* same loop with a small number of tries.
MAX_TRIES == 3
\* Subjects (ParentOrder values) a Get is called with: 1..NumSubjects.
NumSubjects == 2
\* Configuration calls made in one run of Spec.
MaxOps == 2
\* Children added to the one Branch of SpecStar.
MaxStarKids == 104
\* DumpTree is called with a level of 0..MaxLevel.
MaxLevel == 1
\* Names given to nodes and asked of GetNodeByName: 1..NumNames.
NumNames == 3

\* --------------------------------------------------------------- constants
\* The size of m_percentageAllocations, and the total every Branch must reach.
HUNDRED == 100
\* A null TreeNode* / Branch*.
nullptr == -1
\* A pointer that was never assigned (m_parent, and the slots of
\* m_percentageAllocations, have no initializer).
Indeterminate == -2

SIZE_MOD == 2 ^ SIZE_BITS
Slots == 0 .. (HUNDRED - 1)
Subjects == 1 .. NumSubjects
Names == 1 .. NumNames

\* size_t arithmetic.
WordAdd(a, b) == (a + b) % SIZE_MOD
WordSub(a, b) == (a - b) % SIZE_MOD

\* ------------------------------------------------------------ construction
\* The object graph is a record with one field per member variable, each a
\* function of the object's identity.  kind[n] is the dynamic class of n.

EmptyHeap ==
    [ kind |-> <<>>, m_name |-> <<>>, m_parent |-> <<>>, m_rules |-> <<>>,
      m_val |-> <<>>, m_nodes |-> <<>>, m_nodesPercentageMap |-> <<>>,
      m_percentageAllocations |-> <<>>, m_lastAllocated |-> <<>> ]

\* Branch(name): no children, no rules, m_lastAllocated = 0; m_parent and
\* the slot table are left unassigned.  A node is named after its identity
\* unless the builder names it otherwise (Renamed).
NewBranch(h, id) ==
    [ h EXCEPT
        !.kind = @ @@ (id :> "Branch"),
        !.m_name = @ @@ (id :> id),
        !.m_parent = @ @@ (id :> Indeterminate),
        !.m_rules = @ @@ (id :> <<>>),
        !.m_nodes = @ @@ (id :> <<>>),
        !.m_nodesPercentageMap = @ @@ (id :> <<>>),
        !.m_percentageAllocations = @ @@ (id :> [i \in Slots |-> Indeterminate]),
        !.m_lastAllocated = @ @@ (id :> 0) ]

\* Leaf(name, val).
NewLeaf(h, id, val) ==
    [ h EXCEPT
        !.kind = @ @@ (id :> "Leaf"),
        !.m_name = @ @@ (id :> id),
        !.m_parent = @ @@ (id :> Indeterminate),
        !.m_rules = @ @@ (id :> <<>>),
        !.m_val = @ @@ (id :> val) ]

IsLeaf(h, n) == h.kind[n] = "Leaf"

NodesOf(h) == DOMAIN h.kind
BranchesOf(h) == { n \in NodesOf(h) : ~IsLeaf(h, n) }
LeavesOf(h) == { n \in NodesOf(h) : IsLeaf(h, n) }

\* TreeNode::AddRule.
AddRule(h, n, rule) == [ h EXCEPT !.m_rules[n] = Append(@, rule) ]

\* TreeNode::SetParent.
SetParent(h, n, node) == [ h EXCEPT !.m_parent[n] = node ]

\* TreeNode::GetParent.
GetParent(h, n) == h.m_parent[n]

\* Branch::AddNode.
AddNode(h, b, node) ==
    SetParent([ h EXCEPT !.m_nodes[b] = Append(@, node) ], node, b)

\* std::find(m_nodes.begin(), m_nodes.end(), node) != m_nodes.end()
InNodes(h, b, node) == \E k \in 1 .. Len(h.m_nodes[b]) : h.m_nodes[b][k] = node

\* The nodes m_nodes holds.
ChildrenOf(h, b) == { h.m_nodes[b][k] : k \in 1 .. Len(h.m_nodes[b]) }

\* The node no Branch holds as a child.
RootOf(h) == CHOOSE n \in NodesOf(h) : \A b \in BranchesOf(h) : ~InNodes(h, b, n)

\* m_nodesPercentageMap[node] as operator[] reads it: 0 for an absent key.
PercentageOf(h, b, node) ==
    IF node \in DOMAIN h.m_nodesPercentageMap[b]
    THEN h.m_nodesPercentageMap[b][node]
    ELSE 0

\* ------------------------------------------------------------- allocation
\* Every operation returns [heap, thrown]: the object graph it leaves and
\* the exception that ended it ("none" when it returned).

Returned(h) == [ heap |-> h, thrown |-> "none" ]
Threw(h, what) == [ heap |-> h, thrown |-> what ]

\* A plausible slip: the membership check is missing.
AllocatePercentage_NoMemberCheck(h, b, percentage, node) ==
    LET t == h.m_lastAllocated[b]
        end == WordAdd(t, percentage)
    IN  IF end > HUNDRED
        THEN Threw(h, "BadPercentAllocation")
        ELSE Returned(
               [ h EXCEPT
                   !.m_percentageAllocations[b] =
                       [ i \in Slots |-> IF t <= i /\ i < end THEN node ELSE @[i] ],
                   !.m_nodesPercentageMap[b] =
                       (node :> WordAdd(PercentageOf(h, b, node), percentage)) @@ @,
                   !.m_lastAllocated[b] = end ])

\* Branch::AllocatePercentage.
AllocatePercentage(h, b, percentage, node) ==
    LET t == h.m_lastAllocated[b]
        end == WordAdd(t, percentage)
    IN  IF end > HUNDRED
        THEN Threw(h, "BadPercentAllocation")
        ELSE IF ~InNodes(h, b, node)
        THEN Threw(h, "NodeNotInBranch")
        ELSE Returned(
               [ h EXCEPT
                   !.m_percentageAllocations[b] =
                       [ i \in Slots |-> IF t <= i /\ i < end THEN node ELSE @[i] ],
                   !.m_nodesPercentageMap[b] =
                       (node :> WordAdd(PercentageOf(h, b, node), percentage)) @@ @,
                   !.m_lastAllocated[b] = end ])

\* The first loop of SpreadPercentage, from child k on; an exception ends it.
RECURSIVE AllocateEach(_, _, _, _)
AllocateEach(r, b, percentage, k) ==
    IF r.thrown # "none" \/ k > Len(r.heap.m_nodes[b])
    THEN r
    ELSE AllocateEach(
           AllocatePercentage(r.heap, b, percentage, r.heap.m_nodes[b][k]),
           b, percentage, k + 1)

\* The second loop of SpreadPercentage, from child k on: one more unit for
\* each child while diff is positive.
RECURSIVE AllocateRest(_, _, _, _)
AllocateRest(r, b, diff, k) ==
    IF r.thrown # "none" \/ k > Len(r.heap.m_nodes[b]) \/ diff <= 0
    THEN r
    ELSE AllocateRest(
           AllocatePercentage(r.heap, b, 1, r.heap.m_nodes[b][k]),
           b, WordSub(diff, 1), k + 1)

\* A plausible slip: the remainder of the division is never handed out.
SpreadPercentage_NoRemainder(h, b, trap) ==
    IF Len(h.m_nodes[b]) = 0
    THEN Returned(h)
    ELSE AllocateEach(Returned(h), b, HUNDRED \div Len(h.m_nodes[b]), 1)

\* Branch::SpreadPercentage.  100 / m_nodes.size() with no children is a
\* division by zero: the build either traps (trap = TRUE, the process ends
\* with SIGFPE) or yields a quotient, after which both loops run over no
\* child at all.
SpreadPercentage(h, b, trap) ==
    IF Len(h.m_nodes[b]) = 0 /\ trap
    THEN Threw(h, "SIGFPE")
    ELSE LET probabilityPerNode ==
                 IF Len(h.m_nodes[b]) = 0 THEN 0 ELSE HUNDRED \div Len(h.m_nodes[b])
             r == AllocateEach(Returned(h), b, probabilityPerNode, 1)
         IN  IF r.thrown = "none" /\ r.heap.m_lastAllocated[b] # HUNDRED
             THEN AllocateRest(r, b, WordSub(HUNDRED, r.heap.m_lastAllocated[b]), 1)
             ELSE r

RECURSIVE SpreadPercentageOnAllNotSetNodes(_, _, _)
RECURSIVE SpreadChildren(_, _, _, _)
RECURSIVE ResetAllocations(_, _)
RECURSIVE ResetChildren(_, _, _)

\* A plausible slip: the descent stops at a Branch that is already allocated.
SpreadAll_StopAtAllocated(h, b, trap) ==
    IF h.m_lastAllocated[b] = 0
    THEN SpreadChildren(SpreadPercentage(h, b, trap), b, 1, trap)
    ELSE Returned(h)

\* Branch::SpreadPercentageOnAllNotSetNodes.
SpreadPercentageOnAllNotSetNodes(h, b, trap) ==
    SpreadChildren(
        IF h.m_lastAllocated[b] = 0 THEN SpreadPercentage(h, b, trap) ELSE Returned(h),
        b, 1, trap)

\* The loop of SpreadPercentageOnAllNotSetNodes over m_nodes, from child k on.
SpreadChildren(r, b, k, trap) ==
    IF r.thrown # "none" \/ k > Len(r.heap.m_nodes[b])
    THEN r
    ELSE LET node == r.heap.m_nodes[b][k]
         IN  IF IsLeaf(r.heap, node)
             THEN SpreadChildren(r, b, k + 1, trap)
             ELSE SpreadChildren(
                    SpreadPercentageOnAllNotSetNodes(r.heap, node, trap), b, k + 1, trap)

\* Branch::ResetAllocations.
ResetAllocations(h, b) ==
    ResetChildren(
        [ h EXCEPT
            !.m_lastAllocated[b] = 0,
            !.m_percentageAllocations[b] = [ i \in Slots |-> nullptr ] ],
        b, 1)

\* A plausible slip: the Branches below are not reset.
RECURSIVE ResetChildren_NoDescent(_, _, _)
ResetChildren_NoDescent(h, b, k) ==
    IF k > Len(h.m_nodes[b])
    THEN h
    ELSE ResetChildren_NoDescent(
           [ h EXCEPT !.m_nodesPercentageMap[b] = (h.m_nodes[b][k] :> 0) @@ @ ], b, k + 1)

\* The loop of ResetAllocations over m_nodes, from child k on.
ResetChildren(h, b, k) ==
    IF k > Len(h.m_nodes[b])
    THEN h
    ELSE LET node == h.m_nodes[b][k]
             h1 == [ h EXCEPT !.m_nodesPercentageMap[b] = (node :> 0) @@ @ ]
         IN  IF IsLeaf(h1, node)
             THEN ResetChildren(h1, b, k + 1)
             ELSE ResetChildren(ResetAllocations(h1, node), b, k + 1)

\* ----------------------------------------------------------------- lookup
RECURSIVE GetNodeByName(_, _, _)
RECURSIVE FindInNodes(_, _, _, _)

\* A plausible slip: the children are searched before the node itself.
GetNodeByName_ChildrenFirst(h, n, name) ==
    IF IsLeaf(h, n)
    THEN IF h.m_name[n] = name THEN n ELSE nullptr
    ELSE LET result == FindInNodes(h, n, name, 1)
         IN  IF result # nullptr
             THEN result
             ELSE IF h.m_name[n] = name THEN n ELSE nullptr

\* Branch::GetNodeByName and Leaf::GetNodeByName.
GetNodeByName(h, n, name) ==
    IF h.m_name[n] = name
    THEN n
    ELSE IF IsLeaf(h, n)
    THEN nullptr
    ELSE FindInNodes(h, n, name, 1)

\* The loop of Branch::GetNodeByName over m_nodes, from child k on.
FindInNodes(h, b, name, k) ==
    IF k > Len(h.m_nodes[b])
    THEN nullptr
    ELSE LET result == GetNodeByName(h, h.m_nodes[b][k], name)
         IN  IF result # nullptr THEN result ELSE FindInNodes(h, b, name, k + 1)

\* ------------------------------------------------------------------- dump
\* What is written to the std::ostream, one token for each operator<<.
Tab == [ tok |-> "\t", val |-> 0 ]
Endl == [ tok |-> "endl", val |-> 0 ]
Separator == [ tok |-> " : ", val |-> 0 ]
NameToken(name) == [ tok |-> "name", val |-> name ]
NumberToken(number) == [ tok |-> "size_t", val |-> number ]

\* TreeNode::indent.
indent(out, level) == out \o [ i \in 1 .. level |-> Tab ]

RECURSIVE DumpTree(_, _, _)
RECURSIVE DumpNodes(_, _, _, _)

\* Branch::DumpTree and Leaf::DumpTree; r holds the object graph and the
\* stream.
DumpTree(r, n, level) ==
    LET line == indent(r.out, level) \o << NameToken(r.heap.m_name[n]), Endl >>
    IN  IF IsLeaf(r.heap, n)
        THEN [ r EXCEPT !.out = line ]
        ELSE DumpNodes([ r EXCEPT !.out = line ], n, level, 1)

\* The loop of Branch::DumpTree over m_nodes, from child k on.  Reading
\* m_nodesPercentageMap[node] adds the key when it is absent.
DumpNodes(r, b, level, k) ==
    IF k > Len(r.heap.m_nodes[b])
    THEN r
    ELSE LET node == r.heap.m_nodes[b][k]
             number == PercentageOf(r.heap, b, node)
             h1 == [ r.heap EXCEPT !.m_nodesPercentageMap[b] = (node :> number) @@ @ ]
             line == indent(r.out, level) \o << NumberToken(number), Separator >>
         IN  DumpNodes(DumpTree([ heap |-> h1, out |-> line ], node, level + 1), b, level, k + 1)

\* ------------------------------------------------------------------ state
VARIABLES
    kind,                      \* dynamic class of each constructed node
    m_name,                    \* the name given to Named(name)
    m_parent,                  \* TreeNode::m_parent
    m_rules,                   \* TreeNode::m_rules
    m_val,                     \* Leaf::m_val
    m_nodes,                   \* Branch::m_nodes
    m_nodesPercentageMap,      \* Branch::m_nodesPercentageMap
    m_percentageAllocations,   \* Branch::m_percentageAllocations
    m_lastAllocated,           \* Branch::m_lastAllocated
    pre,                       \* the object graph before the last configuration call
    last,                      \* the last configuration call and how it ended
    ops,                       \* configuration calls made so far
    subject,                   \* the ParentOrder of the Get in progress
    stack,                     \* activation records of Get, innermost last
    ret,                       \* the optional the innermost finished Get returned
    call,                      \* the outermost Get: its node and how it ended
    returned,                  \* the activation record that finished last
    waiting,                   \* the Gets of the callers that are not executing
    found,                     \* the last GetNodeByName call and its result
    dumped                     \* the last DumpTree call and what it wrote to its stream

heapVars == << kind, m_name, m_parent, m_rules, m_val, m_nodes, m_nodesPercentageMap,
               m_percentageAllocations, m_lastAllocated >>
configVars == << pre, last, ops >>
getVars == << subject, stack, ret, call, returned >>
queryVars == << found, dumped >>
vars == << heapVars, configVars, getVars, waiting, queryVars >>

Heap ==
    [ kind |-> kind, m_name |-> m_name, m_parent |-> m_parent, m_rules |-> m_rules,
      m_val |-> m_val, m_nodes |-> m_nodes, m_nodesPercentageMap |-> m_nodesPercentageMap,
      m_percentageAllocations |-> m_percentageAllocations,
      m_lastAllocated |-> m_lastAllocated ]

HeapIs(h) ==
    /\ kind = h.kind
    /\ m_name = h.m_name
    /\ m_parent = h.m_parent
    /\ m_rules = h.m_rules
    /\ m_val = h.m_val
    /\ m_nodes = h.m_nodes
    /\ m_nodesPercentageMap = h.m_nodesPercentageMap
    /\ m_percentageAllocations = h.m_percentageAllocations
    /\ m_lastAllocated = h.m_lastAllocated

HeapBecomes(h) ==
    /\ kind' = h.kind
    /\ m_name' = h.m_name
    /\ m_parent' = h.m_parent
    /\ m_rules' = h.m_rules
    /\ m_val' = h.m_val
    /\ m_nodes' = h.m_nodes
    /\ m_nodesPercentageMap' = h.m_nodesPercentageMap
    /\ m_percentageAllocations' = h.m_percentageAllocations
    /\ m_lastAllocated' = h.m_lastAllocated

\* ------------------------------------------------------------ built trees
\* A tree as its builder makes it: the nodes constructed, then AddNode for
\* each <<branch, child>> in order.

\* The value a Leaf is constructed with.
LeafValue(id) == 500 + id

RECURSIVE Construct(_, _, _)
Construct(h, branches, leaves) ==
    IF branches # {}
    THEN LET id == CHOOSE x \in branches : TRUE
         IN  Construct(NewBranch(h, id), branches \ {id}, leaves)
    ELSE IF leaves # {}
    THEN LET id == CHOOSE x \in leaves : TRUE
         IN  Construct(NewLeaf(h, id, LeafValue(id)), branches, leaves \ {id})
    ELSE h

RECURSIVE AddNodes(_, _, _)
AddNodes(h, edges, k) ==
    IF k > Len(edges)
    THEN h
    ELSE AddNodes(AddNode(h, edges[k][1], edges[k][2]), edges, k + 1)

BuildTree(branches, leaves, edges) ==
    AddNodes(Construct(EmptyHeap, branches, leaves), edges, 1)

\* 0 -> [1 -> [2 -> [5, 6, 7], 4], 3]: three Branches in a chain.
ChainTree ==
    BuildTree({0, 1, 2}, {3, 4, 5, 6, 7},
              << <<0, 1>>, <<0, 3>>, <<1, 2>>, <<1, 4>>, <<2, 5>>, <<2, 6>>, <<2, 7>> >>)

\* 0 -> [1 -> [], 2 -> [3]]: Branch 1 has no children.
ChildlessTree ==
    BuildTree({0, 1, 2}, {3}, << <<0, 1>>, <<0, 2>>, <<2, 3>> >>)

\* --------------------------------------------- specification: configuration
\* The percentages AllocatePercentage is called with; the last is a size_t
\* close to its maximum.
Percentages == { 0, 40, 60, SIZE_MOD - 20 }

NoCall == [ op |-> "none", branch |-> nullptr, percentage |-> 0, node |-> nullptr,
            thrown |-> "none" ]

\* No activation has finished yet.
NoneReturned ==
    [ node |-> nullptr, result |-> << >>, thrown |-> "none",
      i |-> 0, draws |-> 0, calls |-> 0, picked |-> {} ]

NoGet ==
    /\ subject = 0
    /\ stack = << >>
    /\ ret = << >>
    /\ call = [ status |-> "idle", node |-> nullptr, result |-> << >>, threw |-> 0 ]
    /\ returned = NoneReturned
    /\ waiting = << >>

\* No GetNodeByName has been called.
NoLookup == [ node |-> nullptr, name |-> nullptr, result |-> nullptr ]

\* Nothing has been dumped.
NoDump == [ node |-> nullptr, level |-> 0, out |-> << >> ]

NoQuery == found = NoLookup /\ dumped = NoDump

Init ==
    /\ \E h \in { ChainTree, ChildlessTree } : HeapIs(h) /\ pre = h
    /\ last = NoCall
    /\ ops = 0
    /\ NoGet
    /\ NoQuery

\* A configuration call may be made while the process lives and the run has
\* calls left.
CanConfigure == ops < MaxOps /\ last.thrown # "SIGFPE"

Configured(op, b, percentage, node, r) ==
    /\ HeapBecomes(r.heap)
    /\ pre' = Heap
    /\ last' = [ op |-> op, branch |-> b, percentage |-> percentage, node |-> node,
                 thrown |-> r.thrown ]
    /\ ops' = ops + 1
    /\ UNCHANGED << getVars, waiting, queryVars >>

DoAllocatePercentage ==
    /\ CanConfigure
    /\ \E b \in BranchesOf(Heap), percentage \in Percentages, node \in NodesOf(Heap) :
          Configured("AllocatePercentage", b, percentage, node,
                     AllocatePercentage(Heap, b, percentage, node))

DoSpreadPercentage ==
    /\ CanConfigure
    /\ \E b \in BranchesOf(Heap), trap \in BOOLEAN :
          Configured("SpreadPercentage", b, 0, nullptr, SpreadPercentage(Heap, b, trap))

DoSpreadPercentageOnAllNotSetNodes ==
    /\ CanConfigure
    /\ \E b \in BranchesOf(Heap), trap \in BOOLEAN :
          Configured("SpreadPercentageOnAllNotSetNodes", b, 0, nullptr,
                     SpreadPercentageOnAllNotSetNodes(Heap, b, trap))

DoResetAllocations ==
    /\ CanConfigure
    /\ \E b \in BranchesOf(Heap) :
          Configured("ResetAllocations", b, 0, nullptr, Returned(ResetAllocations(Heap, b)))

Next ==
    \/ DoAllocatePercentage
    \/ DoSpreadPercentage
    \/ DoSpreadPercentageOnAllNotSetNodes
    \/ DoResetAllocations

Spec == Init /\ [][Next]_vars

\* ------------------------------------- specification: one Branch, N Leaves
\* A builder adds Leaves to a single Branch and then calls SpreadPercentage.

StarInit ==
    /\ HeapIs(NewBranch(EmptyHeap, 0))
    /\ pre = NewBranch(EmptyHeap, 0)
    /\ last = NoCall
    /\ ops = 0
    /\ NoGet
    /\ NoQuery

StarAddNode ==
    /\ ops = 0
    /\ Len(m_nodes[0]) < MaxStarKids
    /\ LET id == Len(m_nodes[0]) + 1
       IN  HeapBecomes(AddNode(NewLeaf(Heap, id, LeafValue(id)), 0, id))
    /\ UNCHANGED << configVars, getVars, waiting, queryVars >>

StarSpreadPercentage ==
    /\ ops = 0
    /\ \E trap \in BOOLEAN :
          Configured("SpreadPercentage", 0, 0, nullptr, SpreadPercentage(Heap, 0, trap))

StarNext == StarAddNode \/ StarSpreadPercentage

SpecStar == StarInit /\ [][StarNext]_vars

\* ------------------------------------------ specification: reconfiguration
\* A tree that has been allocated is reset at one of its Branches and spread
\* again from there.

\* What the builder did to a Branch before: nothing; 60 to its first child;
\* 100 to its last child; SpreadPercentage; 40 to its first child and then,
\* to its last child, a percentage whose sum with 40 wraps around.
Recipes == { "none", "sixty", "all", "spread", "wrapped" }

Prior(h, b, recipe) ==
    IF Len(h.m_nodes[b]) = 0 \/ recipe = "none"
    THEN h
    ELSE LET firstNode == h.m_nodes[b][1]
             lastNode == h.m_nodes[b][Len(h.m_nodes[b])]
         IN  CASE recipe = "sixty" -> AllocatePercentage(h, b, 60, firstNode).heap
               [] recipe = "all" -> AllocatePercentage(h, b, HUNDRED, lastNode).heap
               [] recipe = "spread" -> SpreadPercentage(h, b, TRUE).heap
               [] recipe = "wrapped" ->
                     AllocatePercentage(AllocatePercentage(h, b, 40, firstNode).heap,
                                        b, SIZE_MOD - 20, lastNode).heap

RECURSIVE PriorAll(_, _, _)
PriorAll(h, branches, choice) ==
    IF branches = {}
    THEN h
    ELSE LET b == CHOOSE x \in branches : TRUE
         IN  PriorAll(Prior(h, b, choice[b]), branches \ {b}, choice)

RespreadInit ==
    /\ \E t \in { ChainTree, ChildlessTree } :
       \E choice \in [ BranchesOf(t) -> Recipes ] :
          LET h == PriorAll(t, BranchesOf(t), choice)
          IN  HeapIs(h) /\ pre = h
    /\ last = NoCall
    /\ ops = 0
    /\ NoGet
    /\ NoQuery

RespreadReset ==
    /\ ops = 0
    /\ \E b \in BranchesOf(Heap) :
          Configured("ResetAllocations", b, 0, nullptr, Returned(ResetAllocations(Heap, b)))

\* SpreadPercentageOnAllNotSetNodes on the Branch that has just been reset.
RespreadSpread ==
    /\ ops = 1
    /\ last.op = "ResetAllocations"
    /\ \E trap \in BOOLEAN :
          Configured("SpreadPercentageOnAllNotSetNodes", last.branch, 0, nullptr,
                     SpreadPercentageOnAllNotSetNodes(Heap, last.branch, trap))

RespreadNext == RespreadReset \/ RespreadSpread

SpecRespread == RespreadInit /\ [][RespreadNext]_vars

\* ---------------------------------------------------------------- routing

\* Rule::Check: the wrapped function applied to the subject.
Check(rule, parent) == parent \in rule

\* A plausible slip: only the first rule is consulted.
RulesPassedFrom_FirstOnly(rules, parent, k) ==
    k > Len(rules) \/ Check(rules[k], parent)

\* TreeNode::allRulesPassed, from rule k on.
RECURSIVE RulesPassedFrom(_, _, _)
RulesPassedFrom(rules, parent, k) ==
    IF k > Len(rules)
    THEN TRUE
    ELSE IF ~Check(rules[k], parent)
    THEN FALSE
    ELSE RulesPassedFrom(rules, parent, k + 1)

\* A plausible slip: the rules are not consulted.
allRulesPassed_Always(h, n, parent) == TRUE

\* TreeNode::allRulesPassed.
allRulesPassed(h, n, parent) == RulesPassedFrom(h.m_rules[n], parent, 1)

\* A plausible slip: the total is not checked before the draw.
getRandomNode_Unchecked(h, b, percent) ==
    [ thrown |-> "none", node |-> h.m_percentageAllocations[b][percent] ]

\* Branch::getRandomNode, percent being the value of rand() % 100.
getRandomNode(h, b, percent) ==
    IF h.m_lastAllocated[b] # HUNDRED
    THEN [ thrown |-> "BadPercentAllocation", node |-> nullptr ]
    ELSE [ thrown |-> "none", node |-> h.m_percentageAllocations[b][percent] ]

\* A plausible slip: a Leaf hands out its value whatever its rules say.
LeafGet_Unruled(h, n, parent) == << h.m_val[n] >>

\* Leaf::Get: the optional it returns, << >> being boost::none.
LeafGet(h, n, parent) ==
    IF ~allRulesPassed(h, n, parent) THEN << >> ELSE << h.m_val[n] >>

\* A plausible slip: one pass too many.
LoopContinues_OffByOne(i) == i <= MAX_TRIES

\* The loop condition of Branch::Get.
LoopContinues(i) == i < MAX_TRIES

\* An activation record of Get: i is the loop variable of Branch::Get; draws,
\* calls and picked record the values of rand() taken, the calls of a child's
\* Get made and the children called.
Activation(n) ==
    [ node |-> n, pc |-> "enter", i |-> 0, draws |-> 0, calls |-> 0, picked |-> {} ]

Top == stack[Len(stack)]
Pop(st) == SubSeq(st, 1, Len(st) - 1)
ReplaceTop(st, f) == [ st EXCEPT ![Len(st)] = f ]

Running == call.status = "running" /\ stack # << >>

\* The innermost Get returns the optional r to its caller.
Return(r) ==
    /\ stack' = Pop(stack)
    /\ ret' = r
    /\ returned' = [ node |-> Top.node, result |-> r, thrown |-> "none", i |-> Top.i,
                     draws |-> Top.draws, calls |-> Top.calls, picked |-> Top.picked ]
    /\ call' = IF Len(stack) = 1
               THEN [ call EXCEPT !.status = "returned", !.result = r ]
               ELSE call

\* A caller invokes node->Get(parent).
GetCall ==
    /\ call.status \in { "idle", "returned", "threw" }
    /\ \E n \in NodesOf(Heap), parent \in Subjects :
          /\ subject' = parent
          /\ stack' = << Activation(n) >>
          /\ call' = [ status |-> "running", node |-> n, result |-> << >>, threw |-> 0 ]
    /\ ret' = << >>
    /\ returned' = NoneReturned
    /\ UNCHANGED << heapVars, configVars, waiting, queryVars >>

\* Leaf::Get.
LeafGetStep ==
    /\ Running
    /\ IsLeaf(Heap, Top.node)
    /\ Return(LeafGet(Heap, Top.node, subject))
    /\ UNCHANGED << heapVars, configVars, waiting, queryVars, subject >>

\* Branch::Get, lines 167-168: the Branch's own rules.
BranchEnter ==
    /\ Running
    /\ ~IsLeaf(Heap, Top.node)
    /\ Top.pc = "enter"
    /\ IF ~allRulesPassed(Heap, Top.node, subject)
       THEN Return(<< >>)
       ELSE /\ stack' = ReplaceTop(stack, [ Top EXCEPT !.pc = "loop" ])
            /\ UNCHANGED << ret, call, returned >>
    /\ UNCHANGED << heapVars, configVars, waiting, queryVars, subject >>

\* Branch::Get, lines 170-175: one pass of the loop up to the call of the
\* child's Get.  getRandomNode throws before it draws; a null slot ends the
\* pass; a slot never assigned holds a wild pointer.
BranchTry ==
    /\ Running
    /\ ~IsLeaf(Heap, Top.node)
    /\ Top.pc = "loop"
    /\ LoopContinues(Top.i)
    /\ \E percent \in Slots :
          LET g == getRandomNode(Heap, Top.node, percent)
              drawn == [ Top EXCEPT !.draws = @ + 1 ]
          IN  IF g.thrown # "none"
              THEN /\ call' = [ call EXCEPT !.status = "unwinding", !.threw = @ + 1 ]
                   /\ returned' = [ node |-> Top.node, result |-> << >>,
                                    thrown |-> g.thrown, i |-> Top.i, draws |-> Top.draws,
                                    calls |-> Top.calls, picked |-> Top.picked ]
                   /\ UNCHANGED << stack, ret >>
              ELSE IF g.node = nullptr
              THEN /\ stack' = ReplaceTop(stack, [ drawn EXCEPT !.i = @ + 1 ])
                   /\ UNCHANGED << ret, call, returned >>
              ELSE IF g.node = Indeterminate
              THEN /\ call' = [ call EXCEPT !.status = "crashed" ]
                   /\ UNCHANGED << stack, ret, returned >>
              ELSE /\ stack' = Append(
                          ReplaceTop(stack,
                              [ drawn EXCEPT !.pc = "called", !.calls = @ + 1,
                                             !.picked = @ \cup { g.node } ]),
                          Activation(g.node))
                   /\ UNCHANGED << ret, call, returned >>
    /\ UNCHANGED << heapVars, configVars, waiting, queryVars, subject >>

\* A plausible slip: the slots of a child that yielded no result are handed
\* to the Branch's first child before the next pass.
BranchAfterCall_Redistribute ==
    /\ Running
    /\ ~IsLeaf(Heap, Top.node)
    /\ Top.pc = "called"
    /\ IF ret # << >>
       THEN Return(ret) /\ UNCHANGED heapVars
       ELSE /\ stack' = ReplaceTop(stack, [ Top EXCEPT !.pc = "loop", !.i = @ + 1 ])
            /\ m_percentageAllocations' =
                  [ m_percentageAllocations EXCEPT ![Top.node] =
                      [ i \in Slots |-> IF @[i] = returned.node
                                        THEN m_nodes[Top.node][1] ELSE @[i] ] ]
            /\ UNCHANGED << kind, m_name, m_parent, m_rules, m_val, m_nodes,
                            m_nodesPercentageMap, m_lastAllocated >>
            /\ UNCHANGED << ret, call, returned >>
    /\ UNCHANGED << configVars, waiting, queryVars, subject >>

\* Branch::Get, lines 176-178: the child's Get has returned.
BranchAfterCall ==
    /\ Running
    /\ ~IsLeaf(Heap, Top.node)
    /\ Top.pc = "called"
    /\ IF ret # << >>
       THEN Return(ret)
       ELSE /\ stack' = ReplaceTop(stack, [ Top EXCEPT !.pc = "loop", !.i = @ + 1 ])
            /\ UNCHANGED << ret, call, returned >>
    /\ UNCHANGED << heapVars, configVars, waiting, queryVars, subject >>

\* Branch::Get, line 180: the loop has ended.
BranchExhausted ==
    /\ Running
    /\ ~IsLeaf(Heap, Top.node)
    /\ Top.pc = "loop"
    /\ ~LoopContinues(Top.i)
    /\ Return(<< >>)
    /\ UNCHANGED << heapVars, configVars, waiting, queryVars, subject >>

\* No Get catches: the exception leaves one activation after the other and
\* reaches the caller of the outermost.
Unwind ==
    /\ call.status = "unwinding"
    /\ stack # << >>
    /\ stack' = Pop(stack)
    /\ call' = IF Len(stack) = 1 THEN [ call EXCEPT !.status = "threw" ] ELSE call
    /\ UNCHANGED << heapVars, configVars, waiting, queryVars, subject, ret, returned >>

\* ------------------------------------------------- specification: routing
\* Trees as a builder leaves them: built, rules attached, percentages
\* allocated; then Get is called on any node with any subject.

\* 0 -> [1, 2]: one Branch, two Leaves.
PairTree == BuildTree({0}, {1, 2}, << <<0, 1>>, <<0, 2>> >>)

\* 0 -> [1 -> [3, 4], 2]: a Branch below the root.
NestedTree == BuildTree({0, 1}, {2, 3, 4}, << <<0, 1>>, <<0, 2>>, <<1, 3>>, <<1, 4>> >>)

\* The rule lists a node is given: none; one rule no subject passes; a rule
\* every subject passes followed by one only subject 1 passes.
RuleLists == { << >>, << {} >>, << Subjects, {1} >> }

RECURSIVE AddRules(_, _, _, _)
AddRules(h, n, rules, k) ==
    IF k > Len(rules) THEN h ELSE AddRules(AddRule(h, n, rules[k]), n, rules, k + 1)

RECURSIVE WithRules(_, _, _)
WithRules(h, nodes, assignment) ==
    IF nodes = {}
    THEN h
    ELSE LET n == CHOOSE x \in nodes : TRUE
         IN  WithRules(AddRules(h, n, assignment[n], 1), nodes \ {n}, assignment)

\* All of a Branch's percentage to its last child.
RECURSIVE AllToLast(_, _)
AllToLast(h, branches) ==
    IF branches = {}
    THEN h
    ELSE LET b == CHOOSE x \in branches : TRUE
         IN  AllToLast(
                AllocatePercentage(h, b, HUNDRED, h.m_nodes[b][Len(h.m_nodes[b])]).heap,
                branches \ {b})

\* 60 to the first child of each of the Branches, and no more.
RECURSIVE SixtyToFirst(_, _)
SixtyToFirst(h, branches) ==
    IF branches = {}
    THEN h
    ELSE LET b == CHOOSE x \in branches : TRUE
         IN  SixtyToFirst(AllocatePercentage(h, b, 60, h.m_nodes[b][1]).heap, branches \ {b})

\* The ways the builder allocates: every Branch spread; every Branch gives
\* all to its last child; the root stops at 60 and the Branches below it are
\* spread; the root is spread and the Branches below it stop at 60.
Allocated(h) ==
    LET root == RootOf(h)
    IN  { SpreadPercentageOnAllNotSetNodes(h, root, TRUE).heap,
          AllToLast(h, BranchesOf(h)),
          SpreadPercentageOnAllNotSetNodes(SixtyToFirst(h, {root}), root, TRUE).heap,
          SpreadPercentage(SixtyToFirst(h, BranchesOf(h) \ {root}), root, TRUE).heap }

GetInit ==
    /\ \E t \in { PairTree, NestedTree } :
       \E assignment \in [ NodesOf(t) -> RuleLists ] :
       \E h \in Allocated(WithRules(t, NodesOf(t), assignment)) :
          HeapIs(h) /\ pre = h
    /\ last = NoCall
    /\ ops = 0
    /\ NoGet
    /\ NoQuery

\* A step of the Get in progress.
GetStep ==
    \/ LeafGetStep
    \/ BranchEnter
    \/ BranchTry
    \/ BranchAfterCall
    \/ BranchExhausted
    \/ Unwind

GetNext == GetCall \/ GetStep

SpecGet == GetInit /\ [][GetNext]_vars

\* Get is synchronous: a Get in progress keeps executing.
SpecGetFair == SpecGet /\ WF_vars(GetStep)

\* ------------------------------------- specification: routing, two callers
\* Two callers route through the same tree.  The caller that executes owns
\* subject, stack, ret, call and returned (the parameters and locals of its
\* activations of Get); the other caller's are kept in waiting.  Switch hands
\* the processor to the other caller between any two steps.

\* The executing caller's parameters and locals.
Context ==
    [ subject |-> subject, stack |-> stack, ret |-> ret, call |-> call,
      returned |-> returned ]

\* A caller that has not called Get yet.
IdleContext ==
    [ subject |-> 0, stack |-> << >>, ret |-> << >>,
      call |-> [ status |-> "idle", node |-> nullptr, result |-> << >>, threw |-> 0 ],
      returned |-> NoneReturned ]

\* A plausible slip: the optional a Get returns is kept in a place the
\* callers share.
Switch_SharedResult ==
    /\ \E k \in 1 .. Len(waiting) :
          /\ subject' = waiting[k].subject
          /\ stack' = waiting[k].stack
          /\ ret' = ret
          /\ call' = waiting[k].call
          /\ returned' = waiting[k].returned
          /\ waiting' = [ waiting EXCEPT ![k] = Context ]
    /\ UNCHANGED << heapVars, configVars, queryVars >>

\* The processor passes to a waiting caller: its parameters and locals are
\* its own.
Switch ==
    /\ \E k \in 1 .. Len(waiting) :
          /\ subject' = waiting[k].subject
          /\ stack' = waiting[k].stack
          /\ ret' = waiting[k].ret
          /\ call' = waiting[k].call
          /\ returned' = waiting[k].returned
          /\ waiting' = [ waiting EXCEPT ![k] = Context ]
    /\ UNCHANGED << heapVars, configVars, queryVars >>

ManyInit ==
    /\ \E assignment \in [ NodesOf(PairTree) -> RuleLists ] :
       \E h \in Allocated(WithRules(PairTree, NodesOf(PairTree), assignment)) :
          HeapIs(h) /\ pre = h
    /\ last = NoCall
    /\ ops = 0
    /\ subject = IdleContext.subject
    /\ stack = IdleContext.stack
    /\ ret = IdleContext.ret
    /\ call = IdleContext.call
    /\ returned = IdleContext.returned
    /\ waiting = << IdleContext >>
    /\ NoQuery

ManyNext == GetCall \/ GetStep \/ Switch

SpecGetMany == ManyInit /\ [][ManyNext]_vars

\* --------------------------------------------------- specification: building
\* Nodes have been constructed and none added yet; AddNode is called on any
\* Branch with any node, as the code allows.

BuildInit ==
    /\ LET h == Construct(EmptyHeap, {0, 1, 2}, {3, 4})
       IN  HeapIs(h) /\ pre = h
    /\ last = NoCall
    /\ ops = 0
    /\ NoGet
    /\ NoQuery

DoAddNode ==
    /\ CanConfigure
    /\ \E b \in BranchesOf(Heap), node \in NodesOf(Heap) :
          Configured("AddNode", b, 0, node, Returned(AddNode(Heap, b, node)))

BuildNext == DoAddNode

SpecBuild == BuildInit /\ [][BuildNext]_vars

\* ------------------------------------------------- specification: lookup
\* Trees whose nodes were constructed with any names, two nodes with the
\* same name included; GetNodeByName is called on any node with any name.

\* The tree h with its nodes constructed under the names of naming.
Renamed(h, naming) == [ h EXCEPT !.m_name = naming ]

\* 0 -> [1 -> [2 -> [3, 4]], 5]: Leaves three levels down.
DeepTree ==
    BuildTree({0, 1, 2}, {3, 4, 5},
              << <<0, 1>>, <<1, 2>>, <<2, 3>>, <<2, 4>>, <<0, 5>> >>)

LookupInit ==
    /\ \E t \in { NestedTree, DeepTree } :
       \E naming \in [ NodesOf(t) -> Names ] :
          HeapIs(Renamed(t, naming)) /\ pre = Renamed(t, naming)
    /\ last = NoCall
    /\ ops = 0
    /\ NoGet
    /\ NoQuery

DoGetNodeByName ==
    /\ \E n \in NodesOf(Heap), name \in Names :
          found' = [ node |-> n, name |-> name, result |-> GetNodeByName(Heap, n, name) ]
    /\ UNCHANGED << heapVars, configVars, getVars, waiting, dumped >>

LookupNext == DoGetNodeByName

SpecLookup == LookupInit /\ [][LookupNext]_vars

\* --------------------------------------------------- specification: dump
\* An allocated tree is dumped from any node at any level.

DumpInit ==
    /\ \E t \in { NestedTree, DeepTree } :
       \E choice \in [ BranchesOf(t) -> Recipes ] :
          LET h == PriorAll(t, BranchesOf(t), choice)
          IN  HeapIs(h) /\ pre = h
    /\ last = NoCall
    /\ ops = 0
    /\ NoGet
    /\ NoQuery

DoDumpTree ==
    /\ \E n \in NodesOf(Heap), level \in 0 .. MaxLevel :
          LET r == DumpTree([ heap |-> Heap, out |-> << >> ], n, level)
          IN  /\ HeapBecomes(r.heap)
              /\ dumped' = [ node |-> n, level |-> level, out |-> r.out ]
    /\ UNCHANGED << configVars, getVars, waiting, found >>

DumpNext == DoDumpTree

SpecDump == DumpInit /\ [][DumpNext]_vars

\* ------------------------------------------------- vocabulary of the claims

\* The nodes at or below n.
RECURSIVE SubtreeOf(_, _)
SubtreeOf(h, n) ==
    IF IsLeaf(h, n)
    THEN {n}
    ELSE {n} \cup UNION { SubtreeOf(h, c) : c \in ChildrenOf(h, n) }

RECURSIVE SumOver(_, _, _)
SumOver(h, b, nodes) ==
    IF nodes = {}
    THEN 0
    ELSE LET n == CHOOSE x \in nodes : TRUE
         IN  PercentageOf(h, b, n) + SumOver(h, b, nodes \ {n})

\* The sum of the percentages recorded for the children of b.
RecordedSum(h, b) == SumOver(h, b, ChildrenOf(h, b))

\* The allocation state of Branch b is the same in g and h.
SameAllocation(g, h, b) ==
    /\ g.m_lastAllocated[b] = h.m_lastAllocated[b]
    /\ g.m_percentageAllocations[b] = h.m_percentageAllocations[b]
    /\ \A n \in NodesOf(h) : PercentageOf(g, b, n) = PercentageOf(h, b, n)

\* No Branch of h has received any allocation.
Unallocated(h) ==
    \A b \in BranchesOf(h) :
        /\ h.m_lastAllocated[b] = 0
        /\ \A n \in NodesOf(h) : PercentageOf(h, b, n) = 0

FullyAllocated(h, b) == h.m_lastAllocated[b] = HUNDRED /\ RecordedSum(h, b) = HUNDRED

\* Every rule of n accepts the subject; some rule of n refuses it.
EveryRuleAccepts(h, n, parent) == \A k \in 1 .. Len(h.m_rules[n]) : parent \in h.m_rules[n][k]
SomeRuleRefuses(h, n, parent) == \E k \in 1 .. Len(h.m_rules[n]) : parent \notin h.m_rules[n][k]

\* The nodes that own at least one slot of b's table.
SlotOwners(h, b) ==
    { h.m_percentageAllocations[b][i] : i \in Slots } \ { nullptr, Indeterminate }

\* Value v is held by a Leaf at or below n that a descent from n can reach:
\* every node on the way accepts the subject and owns a slot of its parent.
RECURSIVE CanYield(_, _, _, _)
CanYield(h, n, v, parent) ==
    /\ EveryRuleAccepts(h, n, parent)
    /\ IF IsLeaf(h, n)
       THEN h.m_val[n] = v
       ELSE \E c \in SlotOwners(h, n) \cap ChildrenOf(h, n) : CanYield(h, c, v, parent)

\* An activation of Get on a Branch has finished, by return or by exception.
BranchFinished == returned.node # nullptr /\ ~IsLeaf(Heap, returned.node)

\* The outermost Get has ended.
CallEnded == call.status \in { "returned", "threw", "crashed" }

\* Branch b has no rules, total 100 and the two Leaves A and B as children; A
\* refuses every subject, B accepts every subject and owns a slot.
RejectingAndAccepting(h, b, A, B) ==
    /\ ~IsLeaf(h, b)
    /\ h.m_rules[b] = << >>
    /\ h.m_lastAllocated[b] = HUNDRED
    /\ A # B
    /\ ChildrenOf(h, b) = { A, B }
    /\ IsLeaf(h, A) /\ IsLeaf(h, B)
    /\ \A parent \in Subjects : SomeRuleRefuses(h, A, parent)
    /\ \A parent \in Subjects : EveryRuleAccepts(h, B, parent)
    /\ B \in SlotOwners(h, b)

\* Every Branch has running total 100.
AllFull(h) == \A b \in BranchesOf(h) : h.m_lastAllocated[b] = HUNDRED

\* ------------------------------------------------------------------ claims

\* C1: AllocatePercentage(p, node) on a Branch whose running total is t, with
\* t + p > 100, fails with a configuration error and leaves the running
\* total, the slot table and the per-child records as they were.
C1_OverBudgetFailsUnchanged ==
    ( /\ last.op = "AllocatePercentage"
      /\ pre.m_lastAllocated[last.branch] + last.percentage > HUNDRED )
    => ( last.thrown \in { "BadPercentAllocation", "NodeNotInBranch" } /\ Heap = pre )

\* C2: AllocatePercentage(p, node) fails with a configuration error whenever
\* node is not in the Branch's own child list, and the failed call leaves the
\* running total, the slot table and the per-child records unchanged.
C2_NonChildFailsUnchanged ==
    ( /\ last.op = "AllocatePercentage"
      /\ last.node \notin ChildrenOf(pre, last.branch) )
    => ( /\ last.thrown \in { "BadPercentAllocation", "NodeNotInBranch" }
         /\ Heap = pre )

\* C2's case: the call named a grandchild, the Branch itself or a child of
\* another Branch, passed the budget check and was refused.
C2_Witness ==
    /\ last.op = "AllocatePercentage"
    /\ last.thrown = "NodeNotInBranch"
    /\ pre.m_lastAllocated[last.branch] > 0
    /\ \E c \in ChildrenOf(pre, last.branch) :
          ~IsLeaf(pre, c) /\ last.node \in ChildrenOf(pre, c)

\* C3: SpreadPercentage on a Branch with N >= 1 children and running total 0
\* ends with running total 100, gives the first (100 mod N) children in
\* insertion order floor(100/N) + 1 and every other child floor(100/N).
C3_SpreadIsEven ==
    ( /\ last.op = "SpreadPercentage"
      /\ Unallocated(pre)
      /\ Len(pre.m_nodes[last.branch]) >= 1 )
    => LET b == last.branch
           N == Len(m_nodes[b])
       IN  /\ last.thrown = "none"
           /\ m_lastAllocated[b] = HUNDRED
           /\ \A k \in 1 .. N :
                 PercentageOf(Heap, b, m_nodes[b][k]) =
                     (HUNDRED \div N) + (IF k <= HUNDRED % N THEN 1 ELSE 0)

\* C3's case: more children than there are slots.
C3_Witness ==
    /\ last.op = "SpreadPercentage"
    /\ last.thrown = "none"
    /\ Len(m_nodes[last.branch]) > HUNDRED
    /\ m_lastAllocated[last.branch] = HUNDRED

\* C4 as stated: after SpreadPercentageOnAllNotSetNodes on the root of a tree
\* in which no Branch has received any allocation, every Branch, whatever its
\* number of children, has running total 100 and recorded percentages that
\* sum to 100.
C4_EveryBranchFull ==
    ( /\ last.op = "SpreadPercentageOnAllNotSetNodes"
      /\ last.branch = RootOf(pre)
      /\ Unallocated(pre) )
    => \A b \in BranchesOf(Heap) : FullyAllocated(Heap, b)

\* C4 as amended: once the call has returned, every Branch that has at least
\* one child has running total 100 and recorded percentages that sum to 100.
C4_EveryBranchWithChildrenFull ==
    ( /\ last.op = "SpreadPercentageOnAllNotSetNodes"
      /\ last.branch = RootOf(pre)
      /\ Unallocated(pre)
      /\ last.thrown = "none" )
    => \A b \in BranchesOf(Heap) :
          Len(m_nodes[b]) >= 1 => FullyAllocated(Heap, b)

\* C4's case: the call returned on an unallocated tree of three Branches, one
\* of them with a number of children that does not divide 100.
C4_Witness ==
    /\ last.op = "SpreadPercentageOnAllNotSetNodes"
    /\ last.branch = RootOf(pre)
    /\ Unallocated(pre)
    /\ last.thrown = "none"
    /\ \E b \in BranchesOf(Heap) :
          /\ b # RootOf(pre)
          /\ Len(m_nodes[b]) >= 1
          /\ HUNDRED % Len(m_nodes[b]) # 0
          /\ FullyAllocated(Heap, b)

\* C5: SpreadPercentageOnAllNotSetNodes leaves every Branch whose running
\* total is already nonzero unchanged, and a call that returns has applied
\* SpreadPercentage to every Branch at or below the one it was called on
\* whose running total was zero, those below an already allocated Branch
\* included: each is as SpreadPercentage leaves it, at total 100 when it has
\* a child.
C5_SpreadsOnlyUnset ==
    last.op = "SpreadPercentageOnAllNotSetNodes"
    => /\ \A b \in BranchesOf(pre) :
             pre.m_lastAllocated[b] # 0 => SameAllocation(pre, Heap, b)
       /\ last.thrown = "none"
          => \A d \in SubtreeOf(pre, last.branch) \cap BranchesOf(pre) :
                pre.m_lastAllocated[d] = 0
                => /\ SameAllocation(SpreadPercentage(pre, d, FALSE).heap, Heap, d)
                   /\ Len(pre.m_nodes[d]) >= 1 => m_lastAllocated[d] = HUNDRED

\* C5's case: the call met a partly allocated Branch and spread an unset
\* Branch below it.
C5_Witness ==
    /\ last.op = "SpreadPercentageOnAllNotSetNodes"
    /\ last.thrown = "none"
    /\ \E a \in SubtreeOf(pre, last.branch) \cap BranchesOf(pre) :
          /\ a # last.branch
          /\ pre.m_lastAllocated[a] \notin { 0, HUNDRED }
          /\ m_lastAllocated[a] = pre.m_lastAllocated[a]
          /\ \E d \in ChildrenOf(pre, a) \cap BranchesOf(pre) :
                pre.m_lastAllocated[d] = 0 /\ m_lastAllocated[d] = HUNDRED

\* C6: a value returned by Get on a Branch is the value of a Leaf in its
\* subtree whose rules pass, below Branches whose rules pass, each node on
\* the way owning at least one slot of its parent.
C6_ValueHasSource ==
    ( BranchFinished /\ returned.result # << >> )
    => CanYield(Heap, returned.node, returned.result[1], subject)

\* C6's case: a Get two levels up returned a Leaf's value while another Leaf
\* of the subtree refuses the subject.
C6_Witness ==
    /\ BranchFinished
    /\ returned.result # << >>
    /\ \E b \in ChildrenOf(Heap, returned.node) \cap BranchesOf(Heap) :
          /\ \E L \in ChildrenOf(Heap, b) : returned.result = << m_val[L] >>
          /\ \E L \in ChildrenOf(Heap, b) : SomeRuleRefuses(Heap, L, subject)

\* C7 as stated: with A always refusing and B always accepting and owning a
\* slot, Get returns B's value for every sequence of draws.
C7_AlwaysReturnsB ==
    \A A, B \in LeavesOf(Heap) :
        ( CallEnded /\ RejectingAndAccepting(Heap, call.node, A, B) )
        => ( call.status = "returned" /\ call.result = << m_val[B] >> )

\* C7 as amended: Get returns B's value, or no result when every one of the
\* MAX_TRIES draws selected A; it never returns A's value and never throws.
C7_ReturnsBUnlessEveryDrawHitsA ==
    \A A, B \in LeavesOf(Heap) :
        ( CallEnded /\ RejectingAndAccepting(Heap, call.node, A, B) )
        => /\ call.status = "returned"
           /\ \/ call.result = << m_val[B] >>
              \/ /\ call.result = << >>
                 /\ returned.i = MAX_TRIES
                 /\ returned.calls = MAX_TRIES
                 /\ returned.picked = { A }

\* C7's case: B's value came back after a draw that selected A.
C7_Witness ==
    \E A, B \in LeavesOf(Heap) :
        /\ CallEnded
        /\ RejectingAndAccepting(Heap, call.node, A, B)
        /\ call.result = << m_val[B] >>
        /\ returned.picked = { A, B }

\* The counters of an activation of Branch::Get: at most MAX_TRIES passes,
\* draws and child calls, and no draw beyond the pass in progress.
BoundedActivation(f) ==
    /\ f.i <= MAX_TRIES
    /\ f.calls <= MAX_TRIES
    /\ f.draws <= MAX_TRIES
    /\ f.pc = "called" => f.draws = f.i + 1
    /\ f.pc # "called" => f.draws = f.i

\* C8 (safety): with every Branch at total 100, an activation of Branch::Get
\* calls a child at most MAX_TRIES times, returns a value with the draw that
\* produced it being its last, and returns no result, its own rules passing,
\* only after MAX_TRIES passes.
C8_BoundedTries ==
    AllFull(Heap)
    => /\ \A k \in 1 .. Len(stack) : BoundedActivation(stack[k])
       /\ BranchFinished
          => /\ returned.thrown = "none"
             /\ returned.calls <= MAX_TRIES
             /\ returned.result # << >> => returned.draws = returned.i + 1
             /\ ( returned.result = << >> /\ EveryRuleAccepts(Heap, returned.node, subject) )
                => ( returned.i = MAX_TRIES /\ returned.draws = MAX_TRIES )

\* C8: with every Branch at total 100 the counters stay bounded as above and
\* every Get that is called ends.
C8_GetTerminates ==
    /\ []C8_BoundedTries
    /\ ( AllFull(Heap) /\ call.status = "running" ) ~> ( call.status = "returned" )

\* C8's case: a Get on a Branch used up its MAX_TRIES passes, each with a
\* call of a child, and returned no result.
C8_Witness ==
    /\ AllFull(Heap)
    /\ BranchFinished
    /\ call.status = "returned"
    /\ returned.result = << >>
    /\ returned.calls = MAX_TRIES

\* C9: an activation of Get on a Branch whose rules pass and whose total is
\* not 100 never returns; it throws before its first draw, and once an
\* activation has thrown the outermost Get ends in that error.
C9_BadTotalThrows ==
    /\ ( BranchFinished /\ returned.thrown = "none"
         /\ EveryRuleAccepts(Heap, returned.node, subject) )
       => m_lastAllocated[returned.node] = HUNDRED
    /\ ( BranchFinished /\ returned.thrown # "none" )
       => /\ m_lastAllocated[returned.node] # HUNDRED
          /\ returned.i = 0 /\ returned.draws = 0 /\ returned.calls = 0
    /\ call.threw > 0 => call.status \in { "unwinding", "threw" }
    /\ call.status \in { "unwinding", "threw" } => call.threw = 1

\* C9's case: a Branch below the one Get was called on threw and the error
\* reached the caller.
C9_Witness ==
    /\ call.status = "threw"
    /\ BranchFinished
    /\ returned.thrown = "BadPercentAllocation"
    /\ returned.node # call.node

\* C10: Get on a Branch one of whose rules fails returns no result without a
\* draw, without a call of a child and without an exception, whatever the
\* Branch's running total.
C10_FailedRuleReturnsAtOnce ==
    ( BranchFinished /\ SomeRuleRefuses(Heap, returned.node, subject) )
    => /\ returned.thrown = "none"
       /\ returned.result = << >>
       /\ returned.i = 0 /\ returned.draws = 0 /\ returned.calls = 0

\* C10's case: the Branch's total is not 100 and the Get still returned.
C10_Witness ==
    /\ BranchFinished
    /\ SomeRuleRefuses(Heap, returned.node, subject)
    /\ m_lastAllocated[returned.node] # HUNDRED
    /\ returned.node = call.node
    /\ call.status = "returned"

\* The slots of Branch b that map to node c.
SlotsOf(h, b, c) == { i \in Slots : h.m_percentageAllocations[b][i] = c }

\* C11: within one Get on a Branch every attempt draws over the same full
\* 100-slot table: while the Get runs the table is the one routing began
\* with, every child called on an earlier attempt, whatever it yielded, keeps
\* all its slots, and a draw of the next attempt can select it again.
C11_FailedChildKeepsSlots ==
    \A k \in 1 .. Len(stack) :
        LET f == stack[k]
        IN  ~IsLeaf(Heap, f.node)
            => /\ m_percentageAllocations[f.node] = pre.m_percentageAllocations[f.node]
               /\ \A c \in f.picked :
                     /\ SlotsOf(Heap, f.node, c) = SlotsOf(pre, f.node, c)
                     /\ SlotsOf(Heap, f.node, c) # {}
                     /\ \E percent \in Slots :
                           getRandomNode(Heap, f.node, percent) =
                               [ thrown |-> "none", node |-> c ]

\* C11's case: a child that had yielded no result was drawn again on a later
\* attempt of the same Get, although another child owns slots too.
C11_Witness ==
    /\ stack # << >>
    /\ ~IsLeaf(Heap, stack[1].node)
    /\ stack[1].pc = "called"
    /\ stack[1].i >= 1
    /\ stack[1].calls = stack[1].i + 1
    /\ Cardinality(stack[1].picked) = 1
    /\ Cardinality(SlotOwners(Heap, stack[1].node)) = 2

\* The tree h as its constructors and AddNode calls leave it: the same
\* nodes, children and rules, and no allocation made.
Fresh(h) ==
    [ h EXCEPT
        !.m_nodesPercentageMap = [ b \in BranchesOf(h) |-> << >> ],
        !.m_percentageAllocations = [ b \in BranchesOf(h) |-> [ i \in Slots |-> Indeterminate ] ],
        !.m_lastAllocated = [ b \in BranchesOf(h) |-> 0 ] ]

\* The last two calls were ResetAllocations and then
\* SpreadPercentageOnAllNotSetNodes, both on the root.
ResetAndSpreadOnRoot ==
    /\ ops = 2
    /\ last.op = "SpreadPercentageOnAllNotSetNodes"
    /\ last.branch = RootOf(Heap)

\* C12: ResetAllocations and then SpreadPercentageOnAllNotSetNodes on the
\* root, after any prior allocations, leave every Branch with the running
\* total, slot table and recorded percentages of a freshly built tree with
\* the same children on which only SpreadPercentageOnAllNotSetNodes was
\* called.
C12_RespreadAsFresh ==
    ResetAndSpreadOnRoot
    => /\ last.thrown = "none"
       /\ \E trap \in BOOLEAN :
             LET fresh == SpreadPercentageOnAllNotSetNodes(Fresh(Heap), RootOf(Heap), trap)
             IN  /\ fresh.thrown = "none"
                 /\ \A b \in BranchesOf(Heap) : SameAllocation(Heap, fresh.heap, b)

\* C13: after ResetAllocations on a Branch, that Branch and every Branch
\* below it at any depth has running total 0, 100 empty slots and every
\* child's recorded percentage 0; names, child lists, parent links, rule
\* lists and Leaf values are as they were.
C13_ResetClearsSubtree ==
    last.op = "ResetAllocations"
    => /\ \A d \in SubtreeOf(pre, last.branch) \cap BranchesOf(pre) :
             /\ m_lastAllocated[d] = 0
             /\ \A i \in Slots : m_percentageAllocations[d][i] = nullptr
             /\ \A c \in ChildrenOf(pre, d) :
                   c \in DOMAIN m_nodesPercentageMap[d] /\ m_nodesPercentageMap[d][c] = 0
       /\ kind = pre.kind /\ m_name = pre.m_name
       /\ m_nodes = pre.m_nodes /\ m_parent = pre.m_parent
       /\ m_rules = pre.m_rules /\ m_val = pre.m_val

\* C13's case: a Branch two levels below the one reset had a nonzero total
\* and a wrapped record, and the Branch reset was itself allocated.
C13_Witness ==
    /\ last.op = "ResetAllocations"
    /\ pre.m_lastAllocated[last.branch] = HUNDRED
    /\ \E c \in ChildrenOf(pre, last.branch) \cap BranchesOf(pre) :
       \E d \in ChildrenOf(pre, c) \cap BranchesOf(pre) :
          /\ pre.m_lastAllocated[d] = 20
          /\ \E n \in ChildrenOf(pre, d) : PercentageOf(pre, d, n) > HUNDRED
          /\ m_lastAllocated[d] = 0

\* The nodes at or below n in depth-first pre-order: n, then the subtree of
\* each child in insertion order.
RECURSIVE PreOrder(_, _)
RECURSIVE PreOrderFrom(_, _, _)
PreOrder(h, n) == IF IsLeaf(h, n) THEN << n >> ELSE << n >> \o PreOrderFrom(h, n, 1)
PreOrderFrom(h, b, k) ==
    IF k > Len(h.m_nodes[b])
    THEN << >>
    ELSE PreOrder(h, h.m_nodes[b][k]) \o PreOrderFrom(h, b, k + 1)

\* The positions of the nodes named name.
Matches(h, order, name) == { k \in 1 .. Len(order) : h.m_name[order[k]] = name }

\* C14: GetNodeByName(name) on a node returns the first node named name in
\* pre-order over its subtree, and nullptr exactly when the subtree has no
\* node of that name.
C14_FirstInPreOrder ==
    found.node # nullptr
    => LET order == PreOrder(Heap, found.node)
           matches == Matches(Heap, order, found.name)
       IN  IF matches = {}
           THEN found.result = nullptr
           ELSE /\ found.result # nullptr
                /\ \E k \in matches :
                      /\ found.result = order[k]
                      /\ \A j \in matches : k <= j

\* C14's case: two descendants carry the name, the one found lies deeper
\* than the other and comes first in pre-order.
C14_Witness ==
    /\ found.node # nullptr
    /\ found.result \notin { nullptr, found.node }
    /\ found.result \notin ChildrenOf(Heap, found.node)
    /\ \E c \in ChildrenOf(Heap, found.node) :
          m_name[c] = found.name /\ IsLeaf(Heap, c)

\* An activation of Get on a Leaf has finished.
LeafFinished == returned.node # nullptr /\ IsLeaf(Heap, returned.node)

\* C15: Get on a Leaf holding V returns V exactly when every rule of the
\* Leaf passes for the subject and no result when at least one fails; with
\* no rules it returns V, with one always-false rule it returns no result.
C15_LeafValueIffRulesPass ==
    LeafFinished
    => LET n == returned.node
       IN  /\ returned.thrown = "none"
           /\ returned.result \in { << >>, << m_val[n] >> }
           /\ returned.result = << m_val[n] >> <=> EveryRuleAccepts(Heap, n, subject)
           /\ returned.result = << >> <=> SomeRuleRefuses(Heap, n, subject)
           /\ m_rules[n] = << >> => returned.result = << m_val[n] >>
           /\ m_rules[n] = << {} >> => returned.result = << >>

\* C15's case: Get was called on a Leaf whose first rule passes and whose
\* second rule fails for the subject.
C15_Witness ==
    /\ LeafFinished
    /\ call.node = returned.node
    /\ call.status = "returned"
    /\ Len(m_rules[returned.node]) = 2
    /\ Check(m_rules[returned.node][1], subject)
    /\ ~Check(m_rules[returned.node][2], subject)
    /\ returned.result = << >>

\* The Branches whose child list holds n.
HoldersOf(h, n) == { b \in BranchesOf(h) : InNodes(h, b, n) }

\* The nodes reached from the nodes of set by following child lists at most
\* k times.
RECURSIVE Below(_, _, _)
Below(h, set, k) ==
    IF k = 0
    THEN {}
    ELSE LET kids == UNION { ChildrenOf(h, b) : b \in set \cap BranchesOf(h) }
         IN  kids \cup Below(h, kids, k - 1)

\* C16: after any sequence of AddNode calls the structure is a strict tree:
\* every node is held by at most one Branch, GetParent of a node that is held
\* returns the Branch holding it, no node lies below itself, and GetParent of
\* a node never added to a Branch returns no parent.
C16_StrictTree ==
    last.op = "AddNode"
    => \A n \in NodesOf(Heap) :
          /\ Cardinality(HoldersOf(Heap, n)) <= 1
          /\ \A b \in HoldersOf(Heap, n) : GetParent(Heap, n) = b
          /\ n \notin Below(Heap, {n}, Cardinality(NodesOf(Heap)))
          /\ HoldersOf(Heap, n) = {} => GetParent(Heap, n) = nullptr

\* The ways a Get on n with the subject parent can end when it runs alone:
\* a node whose rules fail returns no result, a Leaf its value, a Branch
\* whose total is not 100 throws, and any other Branch ends as one of its
\* draws can end (a null slot yielding no result).
RECURSIVE Alone(_, _, _)
Alone(h, n, parent) ==
    IF SomeRuleRefuses(h, n, parent)
    THEN { [ status |-> "returned", result |-> << >> ] }
    ELSE IF IsLeaf(h, n)
    THEN { [ status |-> "returned", result |-> << h.m_val[n] >> ] }
    ELSE IF h.m_lastAllocated[n] # HUNDRED
    THEN { [ status |-> "threw", result |-> << >> ] }
    ELSE UNION { LET c == h.m_percentageAllocations[n][i]
                 IN  IF c = nullptr
                     THEN { [ status |-> "returned", result |-> << >> ] }
                     ELSE IF c = Indeterminate
                     THEN { [ status |-> "crashed", result |-> << >> ] }
                     ELSE Alone(h, c, parent) : i \in Slots }

\* Every caller, the executing one first.
Callers == << Context >> \o waiting

\* C17: Get calls, run one after another or interleaved from several
\* callers, change nothing in the tree, and every call that has ended ended
\* in a way the same call can end when run alone.
C17_GetsChangeNothing ==
    /\ Heap = pre
    /\ \A k \in 1 .. Len(Callers) :
          LET c == Callers[k]
          IN  c.call.status \in { "returned", "threw", "crashed" }
              => [ status |-> c.call.status, result |-> c.call.result ]
                    \in Alone(Heap, c.call.node, c.subject)

\* C17's case: one caller's Get on the root returned a value while the other
\* caller's Get, begun before, is in a later pass of its loop.
C17_Witness ==
    /\ Len(waiting) = 1
    /\ call.status = "returned"
    /\ call.result # << >>
    /\ ~IsLeaf(Heap, call.node)
    /\ returned.i >= 1
    /\ waiting[1].call.status = "running"
    /\ Len(waiting[1].stack) = 2
    /\ waiting[1].stack[1].i >= 1

\* The text out cut into lines at each endl; cur is the line in progress.
RECURSIVE LinesFrom(_, _, _)
LinesFrom(out, k, cur) ==
    IF k > Len(out)
    THEN IF cur = << >> THEN << >> ELSE << cur >>
    ELSE IF out[k] = Endl
    THEN << cur >> \o LinesFrom(out, k + 1, << >>)
    ELSE LinesFrom(out, k + 1, Append(cur, out[k]))

IsTab(token) == token = Tab
IsNoTab(token) == token # Tab

\* The nodes at or below n in pre-order, each with its depth (n being at
\* depth d) and the Branch it is listed under.
RECURSIVE Listing(_, _, _, _)
RECURSIVE ListingFrom(_, _, _, _)
Listing(h, n, d, parent) ==
    << [ node |-> n, depth |-> d, parent |-> parent ] >>
        \o (IF IsLeaf(h, n) THEN << >> ELSE ListingFrom(h, n, d, 1))
ListingFrom(h, b, d, k) ==
    IF k > Len(h.m_nodes[b])
    THEN << >>
    ELSE Listing(h, h.m_nodes[b][k], d + 1, b) \o ListingFrom(h, b, d, k + 1)

\* C18: DumpTree(sink, level) emits one line per node of the subtree in
\* pre-order; the line of a node at depth d carries exactly d indentation
\* markers; besides them the line of the node dumped holds its name only and
\* the line of a child the percentage recorded for it in its parent, the
\* separator and its name.
C18_OneMarkerPerLevel ==
    dumped.node # nullptr
    => LET lines == LinesFrom(dumped.out, 1, << >>)
           nodes == Listing(Heap, dumped.node, dumped.level, nullptr)
       IN  /\ dumped.out[Len(dumped.out)] = Endl
           /\ Len(lines) = Len(nodes)
           /\ \A k \in 1 .. Len(nodes) :
                 LET e == nodes[k]
                     name == NameToken(m_name[e.node])
                 IN  /\ Len(SelectSeq(lines[k], IsTab)) = e.depth
                     /\ SelectSeq(lines[k], IsNoTab) =
                           IF e.parent = nullptr
                           THEN << name >>
                           ELSE << NumberToken(PercentageOf(Heap, e.parent, e.node)),
                                   Separator, name >>

\* The slots of Branch b below its running total that map to node c.
CountedSlots(h, b, c) == { i \in SlotsOf(h, b, c) : i < h.m_lastAllocated[b] }

C20_NoWrapAround ==
    last.op = "AllocatePercentage"
    => \/ last.thrown \in { "BadPercentAllocation", "NodeNotInBranch" }
       \/ /\ last.thrown = "none"
          /\ m_lastAllocated[last.branch] =
                pre.m_lastAllocated[last.branch] + last.percentage
          /\ m_lastAllocated[last.branch] <= HUNDRED
          /\ m_lastAllocated[last.branch] >= pre.m_lastAllocated[last.branch]
          /\ \A n \in NodesOf(Heap) :
                PercentageOf(Heap, last.branch, n) >= PercentageOf(pre, last.branch, n)

====
